---- MODULE Spec2Model ----
(***************************************************************************)
(* State-machine model of the Trie of src/src/trie.py: the node tree, the  *)
(* two running counters, and the operations insert, remove, contains,      *)
(* complete, stats and items; of the CSV files of src/src/io_utils.py;     *)
(* and of the command loop of src/src/app.py.                              *)
(*                                                                         *)
(* A string is a sequence of symbols (1 is 'a', 2 is 'b', ...), so that    *)
(* Python's string comparison is the lexicographic order StrLess and       *)
(* built + ch is concatenation.  A node is a record with the three slots   *)
(* of TrieNode; its children dict is a sequence of [ch, node] entries in   *)
(* the dict's insertion order.  A node object is referred to by its        *)
(* address, the string spelled by the path from the root to it.            *)
(***************************************************************************)
EXTENDS Integers, Sequences, FiniteSets, TLC

\* Bounds of the model.
MaxLen == 3
MaxInserts == 3
MaxK == 2

Symbols == {1, 2}
Weights == {1, 2}
Words == UNION {[1..n -> Symbols] : n \in 0..MaxLen}
Prefixes == {w \in Words : Len(w) < MaxLen}
Ks == (0 - 1)..MaxK

----------------------------------------------------------------------------
\* Strings: Python's str comparison.

StrLess(u, v) ==
    \E i \in 1..(Len(v)) :
        /\ \A j \in 1..(i - 1) : j <= Len(u) /\ u[j] = v[j]
        /\ (i > Len(u) \/ (i <= Len(u) /\ u[i] < v[i]))

StartsWith(w, prefix) ==
    /\ Len(prefix) <= Len(w)
    /\ SubSeq(w, 1, Len(prefix)) = prefix

----------------------------------------------------------------------------
\* TrieNode and its children dict.

TrieNode == [children |-> <<>>, is_word |-> FALSE, freq |-> 0]

\* ch in d
HasKey(d, ch) == \E i \in 1..Len(d) : d[i].ch = ch

KeyIndex(d, ch) == CHOOSE i \in 1..Len(d) : d[i].ch = ch

\* d[ch]
GetKey(d, ch) == d[KeyIndex(d, ch)].node

\* d[ch] = node: a new key goes last, an existing key keeps its place
SetKey(d, ch, node) ==
    IF HasKey(d, ch)
    THEN [d EXCEPT ![KeyIndex(d, ch)] = [ch |-> ch, node |-> node]]
    ELSE Append(d, [ch |-> ch, node |-> node])

\* del d[ch]
DelKey(d, ch) ==
    LET i == KeyIndex(d, ch)
    IN  SubSeq(d, 1, i - 1) \o SubSeq(d, i + 1, Len(d))

\* The node object at address addr (the node reached from n along addr).
RECURSIVE NodeAt(_, _)
NodeAt(n, addr) ==
    IF addr = <<>> THEN n
    ELSE NodeAt(GetKey(n.children, <<Head(addr)>>), Tail(addr))

\* The tree after the node object at address addr has been mutated to new.
RECURSIVE SetAt(_, _, _)
SetAt(n, addr, new) ==
    IF addr = <<>> THEN new
    ELSE [n EXCEPT !.children =
            SetKey(@, <<Head(addr)>>,
                   SetAt(GetKey(@, <<Head(addr)>>), Tail(addr), new))]

----------------------------------------------------------------------------
\* Trie.__init__
NewTrie == [root |-> TrieNode, total_words |-> 0, total_nodes |-> 1]

\* Trie._trace: found is "node is not None"; at is the node's address; path
\* is the list of (node, ch) pairs, the node given by its address.
RECURSIVE trace_loop(_, _, _, _)
trace_loop(root, text, i, path) ==
    IF i = Len(text)
    THEN [found |-> TRUE, at |-> text, path |-> path]
    ELSE LET node == NodeAt(root, SubSeq(text, 1, i))
             ch == <<text[i + 1]>>
         IN  IF ~HasKey(node.children, ch)
             THEN [found |-> FALSE, at |-> <<>>, path |-> <<>>]
             ELSE trace_loop(root, text, i + 1,
                     Append(path, [ref |-> SubSeq(text, 1, i + 1), ch |-> ch]))

trace(root, text) ==
    trace_loop(root, text, 0, << [ref |-> <<>>, ch |-> <<>>] >>)

\* Trie.insert: the loop over the characters of word.
RECURSIVE insert_loop(_, _, _)
insert_loop(T, word, i) ==
    IF i = Len(word) THEN T
    ELSE LET at == SubSeq(word, 1, i)
             ch == <<word[i + 1]>>
             node == NodeAt(T.root, at)
         IN  IF ~HasKey(node.children, ch)
             THEN insert_loop(
                    [T EXCEPT !.root = SetAt(@, at,
                                  [node EXCEPT !.children = SetKey(@, ch, TrieNode)]),
                              !.total_nodes = @ + 1],
                    word, i + 1)
             ELSE insert_loop(T, word, i + 1)

\* Trie.insert: marking the final node.
insert_mark_always(T, word) ==
    [T EXCEPT !.root = SetAt(@, word, [NodeAt(@, word) EXCEPT !.is_word = TRUE]),
              !.total_words = @ + 1]

insert_mark(T, word) ==
    IF ~NodeAt(T.root, word).is_word
    THEN [T EXCEPT !.root = SetAt(@, word, [NodeAt(@, word) EXCEPT !.is_word = TRUE]),
                   !.total_words = @ + 1]
    ELSE T

insert(T, word, freq) ==
    LET T1 == insert_loop(T, word, 0)
        T2 == insert_mark(T1, word)
    IN  [T2 EXCEPT !.root = SetAt(@, word, [NodeAt(@, word) EXCEPT !.freq = freq])]

\* Trie.remove: the symbol used as the key to delete from parent, path[i - 1][1].
prune_key(path, i) == path[i - 1].ch

\* Trie.remove: the pruning loop, i running from Len(path) down to 2
\* (range(len(path) - 1, 0, -1) on 0-based indices).
RECURSIVE prune(_, _, _)
prune(T, path, i) ==
    IF i < 2 THEN T
    ELSE LET parent == path[i - 1].ref
             ch == prune_key(path, i)
             child == NodeAt(T.root, path[i].ref)
             pnode == NodeAt(T.root, parent)
         IN  IF child.children = <<>> /\ ~child.is_word
             THEN IF HasKey(pnode.children, ch)
                  THEN prune(
                         [T EXCEPT !.root = SetAt(@, parent,
                                       [pnode EXCEPT !.children = DelKey(@, ch)]),
                                   !.total_nodes = @ - 1],
                         path, i - 1)
                  ELSE prune(T, path, i - 1)
             ELSE T

\* Trie.remove
remove_count_first(T, word) ==
    LET tr == trace(T.root, word)
        T0 == [T EXCEPT !.total_words = @ - 1]
    IN  IF ~tr.found THEN [self |-> T, ret |-> FALSE]
        ELSE IF ~NodeAt(T.root, tr.at).is_word THEN [self |-> T0, ret |-> FALSE]
        ELSE LET T1 == [T0 EXCEPT !.root = SetAt(@, tr.at,
                                    [NodeAt(@, tr.at) EXCEPT !.is_word = FALSE, !.freq = 0])]
             IN  [self |-> prune(T1, tr.path, Len(tr.path)), ret |-> TRUE]

remove(T, word) ==
    LET tr == trace(T.root, word)
    IN  IF ~tr.found \/ ~NodeAt(T.root, tr.at).is_word
        THEN [self |-> T, ret |-> FALSE]
        ELSE LET T1 == [T EXCEPT !.root = SetAt(@, tr.at,
                                    [NodeAt(@, tr.at) EXCEPT !.is_word = FALSE, !.freq = 0]),
                                 !.total_words = @ - 1]
             IN  [self |-> prune(T1, tr.path, Len(tr.path)), ret |-> TRUE]

\* Trie.contains
contains(T, word) ==
    LET tr == trace(T.root, word)
    IN  tr.found /\ NodeAt(T.root, tr.at).is_word

----------------------------------------------------------------------------
\* Trie.complete.  A heap entry is the tuple (freq, word); heapq orders
\* tuples by freq and then by word.  The heap is held as the set of its
\* entries (the words met by one traversal are distinct); heap[0] is the
\* least entry.

tuple_less_smaller_word_wins(x, y) ==
    \/ x.freq < y.freq
    \/ (x.freq = y.freq /\ StrLess(y.word, x.word))

TupleLess(x, y) ==
    \/ x.freq < y.freq
    \/ (x.freq = y.freq /\ StrLess(x.word, y.word))

HeapMin(heap) == CHOOSE x \in heap : \A y \in heap : x = y \/ TupleLess(x, y)

\* heapq.heappush(heap, item)
heappush(heap, item) == heap \cup {item}

\* heapq.heappushpop(heap, item): the item goes in and the least entry comes
\* out; on an empty heap, or when item is not above heap[0], item comes out.
heappushpop_keeps_on_empty(heap, item) ==
    IF heap = {} THEN {item}
    ELSE IF TupleLess(HeapMin(heap), item)
         THEN (heap \ {HeapMin(heap)}) \cup {item}
         ELSE heap

heappushpop(heap, item) ==
    IF heap # {} /\ TupleLess(HeapMin(heap), item)
    THEN (heap \ {HeapMin(heap)}) \cup {item}
    ELSE heap

\* sorted(cur_node.children.keys())
RECURSIVE sorted_keys(_)
sorted_keys(ks) ==
    IF ks = {} THEN <<>>
    ELSE LET m == CHOOSE x \in ks : \A y \in ks : x = y \/ StrLess(x, y)
         IN  <<m>> \o sorted_keys(ks \ {m})

\* the admission test of dfs
heap_has_room_off_by_one(heap, k) == Cardinality(heap) <= k

heap_has_room_one_short(heap, k) == Cardinality(heap) < k - 1

heap_has_room(heap, k) == Cardinality(heap) < k

\* dfs(cur_node, built), returning the heap it leaves; dfs_children is its
\* loop over the sorted keys.
RECURSIVE dfs(_, _, _, _)
RECURSIVE dfs_children(_, _, _, _, _)
dfs(cur_node, built, heap, k) ==
    LET item == [freq |-> cur_node.freq, word |-> built]
        h1 == IF cur_node.is_word
              THEN IF heap_has_room(heap, k)
                   THEN heappush(heap, item)
                   ELSE heappushpop(heap, item)
              ELSE heap
    IN  dfs_children(cur_node,
                     sorted_keys({cur_node.children[i].ch :
                                    i \in 1..Len(cur_node.children)}),
                     built, h1, k)

dfs_children(cur_node, ks, built, heap, k) ==
    IF ks = <<>> THEN heap
    ELSE dfs_children(cur_node, Tail(ks), built,
                      dfs(GetKey(cur_node.children, Head(ks)),
                          built \o Head(ks), heap, k),
                      k)

\* the sort key (-freq, word) of the final sort
result_before_desc_word(x, y) ==
    \/ x.freq > y.freq
    \/ (x.freq = y.freq /\ StrLess(y.word, x.word))

result_before(x, y) ==
    \/ x.freq > y.freq
    \/ (x.freq = y.freq /\ StrLess(x.word, y.word))

\* sorted(heap, key=lambda x: (-x[0], x[1]))
RECURSIVE sorted_result(_)
sorted_result(heap) ==
    IF heap = {} THEN <<>>
    ELSE LET m == CHOOSE x \in heap : \A y \in heap : x = y \/ result_before(x, y)
         IN  <<m>> \o sorted_result(heap \ {m})

complete(T, prefix, k) ==
    LET tr == trace(T.root, prefix)
    IN  IF ~tr.found THEN <<>>
        ELSE LET heap == dfs(NodeAt(T.root, tr.at), prefix, {}, k)
                 result == sorted_result(heap)
             IN  [i \in 1..Len(result) |-> result[i].word]

----------------------------------------------------------------------------
\* Trie.stats

Max(S) == CHOOSE x \in S : \A y \in S : y <= x

RECURSIVE height(_)
height(node) ==
    IF node.children = <<>> THEN 0
    ELSE 1 + Max({height(node.children[i].node) : i \in 1..Len(node.children)})

stats(T) == <<T.total_words, height(T.root), T.total_nodes>>

\* Trie.items: gather(node, prefix) appends to pairs in the order of the
\* children dicts.
RECURSIVE gather(_, _, _)
RECURSIVE gather_children(_, _, _, _)
gather(node, prefix, pairs) ==
    gather_children(node, 1, prefix,
                    IF node.is_word
                    THEN Append(pairs, <<prefix, node.freq>>)
                    ELSE pairs)

gather_children(node, i, prefix, pairs) ==
    IF i > Len(node.children) THEN pairs
    ELSE gather_children(node, i + 1, prefix,
                         gather(node.children[i].node,
                                prefix \o node.children[i].ch, pairs))

items(T) == gather(T.root, <<>>, <<>>)

----------------------------------------------------------------------------
\* The CSV files of src/src/io_utils.py.  The characters beyond the letters
\* 1 ('a'), 2 ('b') and 3 ('c') are numbered below them in ASCII order:
\* line feed, carriage return, space, '"', ',', '.', '0', '1', '2', 'A'.
\* A float is written and read as a numeral of one digit, '.' and zeros
\* (1.0 is the weight 1), which covers the weights of the model.

Chr == [lf |-> 0 - 9, cr |-> 0 - 8, sp |-> 0 - 7, quote |-> 0 - 6,
        comma |-> 0 - 5, dot |-> 0 - 4, d0 |-> 0 - 3, d1 |-> 0 - 2,
        d2 |-> 0 - 1, A |-> 0]

\* str.lower
lower(s) == [i \in 1..Len(s) |-> IF s[i] = Chr.A THEN 1 ELSE s[i]]

\* str.strip
Whitespace == {Chr.sp, Chr.cr, Chr.lf}

RECURSIVE lstrip(_)
lstrip(s) ==
    IF s # <<>> /\ Head(s) \in Whitespace THEN lstrip(Tail(s)) ELSE s

RECURSIVE rstrip(_)
rstrip(s) ==
    IF s # <<>> /\ s[Len(s)] \in Whitespace
    THEN rstrip(SubSeq(s, 1, Len(s) - 1))
    ELSE s

strip(s) == rstrip(lstrip(s))

\* str(score) of a float, as csv.writer writes it
float_str(x) == <<Chr.d0 + x, Chr.dot, Chr.d0>>

\* float(text): ok is FALSE for ValueError
Digits == {Chr.d0, Chr.d1, Chr.d2}

float_parse(text) ==
    LET t == strip(text)
    IN  IF /\ Len(t) >= 1
           /\ t[1] \in Digits
           /\ (Len(t) >= 2 => t[2] = Chr.dot)
           /\ \A i \in 3..Len(t) : t[i] = Chr.d0
        THEN [ok |-> TRUE, val |-> t[1] - Chr.d0]
        ELSE [ok |-> FALSE, val |-> 0]

\* csv.writer, excel dialect: a field holding the delimiter, the quote
\* character or a line terminator character is quoted, its quotes doubled
RECURSIVE csv_escape(_)
csv_escape(field) ==
    IF field = <<>> THEN <<>>
    ELSE (IF Head(field) = Chr.quote THEN <<Chr.quote, Chr.quote>>
          ELSE <<Head(field)>>) \o csv_escape(Tail(field))

csv_field_unquoted(field) == field

csv_field(field) ==
    IF \E i \in 1..Len(field) :
           field[i] \in {Chr.comma, Chr.quote, Chr.cr, Chr.lf}
    THEN <<Chr.quote>> \o csv_escape(field) \o <<Chr.quote>>
    ELSE field

\* writer.writerow([word, score])
writerow(word, score) ==
    csv_field(word) \o <<Chr.comma>> \o csv_field(float_str(score))
        \o <<Chr.cr, Chr.lf>>

\* csv.reader, excel dialect, over the text of the file from position i:
\* the rows with at least one field (load_csv skips the empty rows of blank
\* lines).  st is the parser state, field and row what has been read of
\* the current field and record.
RECURSIVE csv_parse(_, _, _, _, _, _)
csv_parse(text, i, st, field, row, rows) ==
    IF i > Len(text)
    THEN IF st \in {"START_RECORD", "EAT_CRNL"} THEN rows
         ELSE Append(rows, Append(row, field))
    ELSE LET c == text[i]
             eol == c \in {Chr.cr, Chr.lf}
         IN  CASE st = "EAT_CRNL" /\ eol ->
                    csv_parse(text, i + 1, "EAT_CRNL", <<>>, <<>>, rows)
               [] st = "EAT_CRNL" /\ ~eol ->
                    csv_parse(text, i, "START_RECORD", <<>>, <<>>, rows)
               [] st = "START_RECORD" /\ eol ->
                    csv_parse(text, i + 1, "EAT_CRNL", <<>>, <<>>, rows)
               [] st = "START_RECORD" /\ ~eol ->
                    csv_parse(text, i, "START_FIELD", <<>>, <<>>, rows)
               [] st = "START_FIELD" /\ eol ->
                    csv_parse(text, i + 1, "EAT_CRNL", <<>>, <<>>,
                              Append(rows, Append(row, <<>>)))
               [] st = "START_FIELD" /\ c = Chr.quote ->
                    csv_parse(text, i + 1, "IN_QUOTED_FIELD", <<>>, row, rows)
               [] st = "START_FIELD" /\ c = Chr.comma ->
                    csv_parse(text, i + 1, "START_FIELD", <<>>,
                              Append(row, <<>>), rows)
               [] st = "START_FIELD" /\ ~eol /\ c \notin {Chr.quote, Chr.comma} ->
                    csv_parse(text, i + 1, "IN_FIELD", <<c>>, row, rows)
               [] st = "IN_FIELD" /\ eol ->
                    csv_parse(text, i + 1, "EAT_CRNL", <<>>, <<>>,
                              Append(rows, Append(row, field)))
               [] st = "IN_FIELD" /\ c = Chr.comma ->
                    csv_parse(text, i + 1, "START_FIELD", <<>>,
                              Append(row, field), rows)
               [] st = "IN_FIELD" /\ ~eol /\ c # Chr.comma ->
                    csv_parse(text, i + 1, "IN_FIELD", Append(field, c), row, rows)
               [] st = "IN_QUOTED_FIELD" /\ c = Chr.quote ->
                    csv_parse(text, i + 1, "QUOTE_IN_QUOTED_FIELD", field, row, rows)
               [] st = "IN_QUOTED_FIELD" /\ c # Chr.quote ->
                    csv_parse(text, i + 1, "IN_QUOTED_FIELD", Append(field, c),
                              row, rows)
               [] st = "QUOTE_IN_QUOTED_FIELD" /\ c = Chr.quote ->
                    csv_parse(text, i + 1, "IN_QUOTED_FIELD", Append(field, c),
                              row, rows)
               [] st = "QUOTE_IN_QUOTED_FIELD" /\ c = Chr.comma ->
                    csv_parse(text, i + 1, "START_FIELD", <<>>,
                              Append(row, field), rows)
               [] st = "QUOTE_IN_QUOTED_FIELD" /\ eol ->
                    csv_parse(text, i + 1, "EAT_CRNL", <<>>, <<>>,
                              Append(rows, Append(row, field)))
               [] OTHER ->
                    csv_parse(text, i + 1, "IN_FIELD", Append(field, c), row, rows)

csv_reader(text) == csv_parse(text, 1, "START_RECORD", <<>>, <<>>, <<>>)

\* What a path names: no file, a directory (open fails with an error other
\* than FileNotFoundError), or a file with its text.
Missing == [kind |-> "missing"]
Directory == [kind |-> "directory"]
File(text) == [kind |-> "file", text |-> text]

\* load_csv: the loop body, one row to one (word, score) pair
load_row(row) ==
    LET word == lower(strip(row[1]))
        score == IF Len(row) > 1 /\ float_parse(row[2]).ok
                 THEN float_parse(row[2]).val
                 ELSE 0
    IN  <<word, score>>

\* load_csv: ret is the list returned, raised the exception that reaches
\* the caller ("none": the function returns), printed what it prints.
load_csv(fsys, file_path) ==
    IF fsys[file_path] = Missing
    THEN [ret |-> <<>>, raised |-> "none",
          printed |-> << <<"ERROR: Missing file at", file_path>> >>]
    ELSE IF fsys[file_path] = Directory
    THEN [ret |-> <<>>, raised |-> "none",
          printed |-> << <<"ERROR: Failed to load", file_path>> >>]
    ELSE LET rows == csv_reader(fsys[file_path].text)
         IN  [ret |-> [i \in 1..Len(rows) |-> load_row(rows[i])],
              raised |-> "none", printed |-> <<>>]

\* save_csv: open(file_path, "w") truncates the file, one row per pair
RECURSIVE save_rows(_)
save_rows(data) ==
    IF data = <<>> THEN <<>>
    ELSE writerow(Head(data)[1], Head(data)[2]) \o save_rows(Tail(data))

save_csv(fsys, file_path, data) ==
    IF fsys[file_path] = Directory
    THEN [fs |-> fsys,
          printed |-> << <<"ERROR: Could not save file", file_path>> >>]
    ELSE [fs |-> [fsys EXCEPT ![file_path] = File(save_rows(data))],
          printed |-> <<>>]

\* handle_load: a new Trie filled from the file
RECURSIVE insert_all(_, _)
insert_all(T, data) ==
    IF data = <<>> THEN T
    ELSE insert_all(insert(T, Head(data)[1], Head(data)[2]), Tail(data))

handle_load(fsys, file_path) ==
    LET r == load_csv(fsys, file_path)
    IN  [trie |-> insert_all(NewTrie, r.ret), raised |-> r.raised,
         printed |-> r.printed]

\* handle_save
handle_save(T, fsys, file_path) == save_csv(fsys, file_path, items(T))

----------------------------------------------------------------------------
\* The state: the Trie object, the reference map the Trie is compared with
\* (the set of (word, weight) pairs that the calls so far should have
\* left), the number of insert calls made, and the call that has just
\* run with its result.  The Trie is single-threaded and every method runs
\* to completion: the caller makes a call, holds its result in last, and
\* moves on (Return) before it makes the next call.  last.found is the
\* boolean result of remove and contains; for insert, which returns
\* nothing, it records whether contains(word) held when insert was called.
\* fs is the file system under the paths the program is given, and running
\* is FALSE once the command loop of main has ended.  ref and inserts
\* follow the direct calls of insert and remove only.

VARIABLES root, total_words, total_nodes, ref, inserts, last, fs, running

vars == <<root, total_words, total_nodes, ref, inserts, last, fs, running>>

\* The paths that name files: "a" and "b".
Paths == {<<1>>, <<2>>}

self == [root |-> root, total_words |-> total_words, total_nodes |-> total_nodes]

NoCall == [op |-> "none", word |-> <<>>, arg |-> 0, found |-> FALSE, out |-> <<>>]

Init ==
    /\ root = NewTrie.root
    /\ total_words = NewTrie.total_words
    /\ total_nodes = NewTrie.total_nodes
    /\ ref = {}
    /\ inserts = 0
    /\ last = NoCall
    /\ fs = [p \in Paths |-> Missing]
    /\ running = TRUE

RefKeys == {p[1] : p \in ref}

Insert(word, freq) ==
    /\ last = NoCall
    /\ inserts < MaxInserts
    /\ LET T == insert(self, word, freq)
       IN  /\ root' = T.root
           /\ total_words' = T.total_words
           /\ total_nodes' = T.total_nodes
    /\ ref' = {p \in ref : p[1] # word} \cup {<<word, freq>>}
    /\ inserts' = inserts + 1
    /\ UNCHANGED <<fs, running>>
    /\ last' = [NoCall EXCEPT !.op = "insert", !.word = word, !.arg = freq,
                              !.found = contains(self, word)]

Remove(word) ==
    /\ last = NoCall
    /\ LET r == remove(self, word)
       IN  /\ root' = r.self.root
           /\ total_words' = r.self.total_words
           /\ total_nodes' = r.self.total_nodes
           /\ last' = [NoCall EXCEPT !.op = "remove", !.word = word, !.found = r.ret]
    /\ ref' = {p \in ref : p[1] # word}
    /\ UNCHANGED <<inserts, fs, running>>

Contains(word) ==
    /\ last = NoCall
    /\ last' = [NoCall EXCEPT !.op = "contains", !.word = word,
                              !.found = contains(self, word)]
    /\ UNCHANGED <<root, total_words, total_nodes, ref, inserts, fs, running>>

Complete(prefix, k) ==
    /\ last = NoCall
    /\ last' = [NoCall EXCEPT !.op = "complete", !.word = prefix, !.arg = k,
                              !.out = complete(self, prefix, k)]
    /\ UNCHANGED <<root, total_words, total_nodes, ref, inserts, fs, running>>

Stats ==
    /\ last = NoCall
    /\ last' = [NoCall EXCEPT !.op = "stats", !.out = stats(self)]
    /\ UNCHANGED <<root, total_words, total_nodes, ref, inserts, fs, running>>

Items ==
    /\ last = NoCall
    /\ last' = [NoCall EXCEPT !.op = "items", !.out = items(self)]
    /\ UNCHANGED <<root, total_words, total_nodes, ref, inserts, fs, running>>

Return ==
    /\ last # NoCall
    /\ last' = NoCall
    /\ UNCHANGED <<root, total_words, total_nodes, ref, inserts, fs, running>>

Next ==
    \/ \E word \in Words, freq \in Weights : Insert(word, freq)
    \/ \E word \in Words : Remove(word)
    \/ \E word \in Words : Contains(word)
    \/ \E prefix \in Prefixes, k \in Ks : Complete(prefix, k)
    \/ Stats
    \/ Items
    \/ Return

Spec == Init /\ [][Next]_vars

\* The calls of the spec's scenarios 2 and 3: the words a, ab and abc
\* (3 is 'c'), each of weight 1.0, inserted and removed in any order.
ScenarioWords == {<<1>>, <<1, 2>>, <<1, 2, 3>>}

NextScenario ==
    \/ \E word \in ScenarioWords : Insert(word, 1)
    \/ \E word \in ScenarioWords : Remove(word)
    \/ Stats
    \/ Return

SpecScenario == Init /\ [][NextScenario]_vars

----------------------------------------------------------------------------
\* handle_save and handle_load called on the Trie, next to direct calls of
\* insert and remove with words of any characters.

HandleSave(file_path) ==
    /\ last = NoCall
    /\ LET r == handle_save(self, fs, file_path)
       IN  /\ fs' = r.fs
           /\ last' = [NoCall EXCEPT !.op = "save", !.word = file_path,
                                     !.out = r.printed]
    /\ UNCHANGED <<root, total_words, total_nodes, ref, inserts, running>>

HandleLoad(file_path) ==
    /\ last = NoCall
    /\ LET r == handle_load(fs, file_path)
       IN  /\ root' = r.trie.root
           /\ total_words' = r.trie.total_words
           /\ total_nodes' = r.trie.total_nodes
           /\ last' = [NoCall EXCEPT !.op = "load", !.word = file_path,
                                     !.out = r.printed]
    /\ UNCHANGED <<ref, inserts, fs, running>>

\* the words of the direct calls: '', 'a', 'A', ' a', 'a,', '"a', 'a' LF
CsvWords == {<<>>, <<1>>, <<Chr.A>>, <<Chr.sp, 1>>, <<1, Chr.comma>>,
             <<Chr.quote, 1>>, <<1, Chr.lf>>}

\* the path of the round trips: "b"
CsvPaths == {<<2>>}

\* the weight of the direct calls: 2.0
CsvWeights == {2}

NextIO ==
    \/ \E word \in CsvWords, freq \in CsvWeights : Insert(word, freq)
    \/ \E word \in CsvWords : Remove(word)
    \/ \E file_path \in CsvPaths : HandleSave(file_path)
    \/ \E file_path \in CsvPaths : HandleLoad(file_path)
    \/ Return

SpecIO == Init /\ [][NextIO]_vars

----------------------------------------------------------------------------
\* The command loop of app.py.  A line of input is a string of characters;
\* letters are numbered by their place in the alphabet (a is 1, ..., z is
\* 26), which extends the numbering of the symbols of the words.

Verb == [quit     |-> <<17, 21, 9, 20>>,
         load     |-> <<12, 15, 1, 4>>,
         save     |-> <<19, 1, 22, 5>>,
         insert   |-> <<9, 14, 19, 5, 18, 20>>,
         remove   |-> <<18, 5, 13, 15, 22, 5>>,
         contains |-> <<3, 15, 14, 20, 1, 9, 14, 19>>,
         complete |-> <<3, 15, 13, 16, 12, 5, 20, 5>>,
         stats    |-> <<19, 20, 1, 20, 19>>]

\* str.split(): the maximal runs of characters that are not whitespace
RECURSIVE token_len(_)
token_len(s) ==
    IF s = <<>> \/ Head(s) \in Whitespace THEN 0 ELSE 1 + token_len(Tail(s))

RECURSIVE split(_)
split(s) ==
    LET t == lstrip(s)
    IN  IF t = <<>> THEN <<>>
        ELSE <<SubSeq(t, 1, token_len(t))>>
                 \o split(SubSeq(t, token_len(t) + 1, Len(t)))

\* sep.join(words)
RECURSIVE join(_, _)
join(sep, words) ==
    IF words = <<>> THEN <<>>
    ELSE IF Len(words) = 1 THEN Head(words)
    ELSE Head(words) \o sep \o join(sep, Tail(words))

\* int(text) of the texts that occur here: surrounding whitespace is
\* ignored and one digit is a number; anything else is a ValueError.
int_parse(text) ==
    LET s == strip(text)
    IN  IF Len(s) = 1 /\ s[1] \in Digits
        THEN [ok |-> TRUE, val |-> s[1] - Chr.d0]
        ELSE [ok |-> FALSE, val |-> 0]

\* The handlers: trie and fs are the Trie and the file system they leave,
\* printed the lines they print, raised the exception they end with.
handle_insert(T, word, freq) ==
    IF float_parse(freq).ok
    THEN [trie |-> insert(T, lower(word), float_parse(freq).val),
          raised |-> "none", printed |-> <<>>]
    ELSE [trie |-> T, raised |-> "ValueError", printed |-> <<>>]

handle_remove(T, word) ==
    LET r == remove(T, lower(word))
    IN  [trie |-> r.self, raised |-> "none",
         printed |-> << <<IF r.ret THEN "OK" ELSE "MISS">> >>]

handle_contains(T, word) ==
    [trie |-> T, raised |-> "none",
     printed |-> << <<IF contains(T, lower(word)) THEN "YES" ELSE "NO">> >>]

handle_complete(T, prefix, k) ==
    IF int_parse(k).ok
    THEN [trie |-> T, raised |-> "none",
          printed |-> << <<join(<<Chr.comma>>,
                                complete(T, lower(prefix), int_parse(k).val))>> >>]
    ELSE [trie |-> T, raised |-> "ValueError", printed |-> <<>>]

handle_stats(T) ==
    [trie |-> T, raised |-> "none",
     printed |-> << <<"words=", stats(T)[1], "height=", stats(T)[2],
                      "nodes=", stats(T)[3]>> >>]

\* execute_command: keep is the boolean returned, trie the Trie returned,
\* fs the file system left, printed what went to stdout and stderr.
execute_command(line, T, fsys) ==
    LET parts == split(strip(line))
        cmd == lower(parts[1])
        same == [keep |-> TRUE, trie |-> T, fs |-> fsys, printed |-> <<>>]
    IN  IF parts = <<>> THEN same
        ELSE IF cmd = Verb.quit THEN [same EXCEPT !.keep = FALSE]
        ELSE IF cmd = Verb.load /\ Len(parts) = 2 THEN
            LET r == handle_load(fsys, parts[2])
            IN  IF r.raised = "FileNotFoundError"
                THEN [same EXCEPT !.printed =
                         r.printed \o << <<"ERROR: File not found -", parts[2]>> >>]
                ELSE IF r.raised # "none"
                THEN [same EXCEPT !.printed = r.printed]
                ELSE [same EXCEPT !.trie = r.trie, !.printed = r.printed]
        ELSE IF cmd = Verb.save /\ Len(parts) = 2 THEN
            LET r == handle_save(T, fsys, parts[2])
            IN  [same EXCEPT !.fs = r.fs, !.printed = r.printed]
        ELSE IF cmd = Verb.insert /\ Len(parts) = 3 THEN
            LET r == handle_insert(T, parts[2], parts[3])
            IN  [same EXCEPT !.trie = r.trie, !.printed = r.printed]
        ELSE IF cmd = Verb.remove /\ Len(parts) = 2 THEN
            LET r == handle_remove(T, parts[2])
            IN  [same EXCEPT !.trie = r.trie, !.printed = r.printed]
        ELSE IF cmd = Verb.contains /\ Len(parts) = 2 THEN
            LET r == handle_contains(T, parts[2])
            IN  [same EXCEPT !.printed = r.printed]
        ELSE IF cmd = Verb.complete /\ Len(parts) = 3 THEN
            LET r == handle_complete(T, parts[2], parts[3])
            IN  [same EXCEPT !.printed = r.printed]
        ELSE IF cmd = Verb.stats THEN
            [same EXCEPT !.printed = handle_stats(T).printed]
        ELSE same

\* main: one line of stdin is read and executed; last holds the line, the
\* boolean returned and the output
Execute(line) ==
    /\ running
    /\ last = NoCall
    /\ LET r == execute_command(line, self, fs)
       IN  /\ root' = r.trie.root
           /\ total_words' = r.trie.total_words
           /\ total_nodes' = r.trie.total_nodes
           /\ fs' = r.fs
           /\ running' = r.keep
           /\ last' = [NoCall EXCEPT !.op = "exec", !.word = line,
                                     !.found = r.keep, !.out = r.printed]
    /\ UNCHANGED <<ref, inserts>>

\* main: stdin is at its end, the for loop is over
EndOfInput ==
    /\ running
    /\ last = NoCall
    /\ running' = FALSE
    /\ UNCHANGED <<root, total_words, total_nodes, ref, inserts, last, fs>>

\* The lines typed: a verb, known or not, in lower or mixed case, followed
\* by no, one, two or three arguments, and lines of whitespace only.
TypedVerbs ==
    {Verb.quit, Verb.load, Verb.save, Verb.insert, Verb.remove, Verb.contains,
     Verb.complete, Verb.stats,
     <<12, 15, Chr.A, 4>>,      \* loAd
     <<1, 2, 3>>}               \* abc

TypedArgs ==
    {<<>>,
     << <<1>> >>,                          \* a
     << <<2>> >>,                          \* b
     << <<1>>, <<Chr.d1>> >>,              \* a 1
     << <<2>>, <<Chr.d2>> >>,              \* b 2
     << <<Chr.A>>, <<Chr.d2>> >>,          \* A 2
     << <<1>>, <<2>> >>,                   \* a b
     << <<1>>, <<Chr.d1>>, <<2>> >>}       \* a 1 b

Lines ==
    {join(<<Chr.sp>>, <<verb>> \o args) \o <<Chr.lf>> :
         verb \in TypedVerbs, args \in TypedArgs}
    \cup {<<Chr.lf>>, <<Chr.sp, Chr.sp>> \o Verb.stats \o <<Chr.sp, Chr.lf>>}

\* the program starts with no file at "a" and a directory at "b"
InitCli ==
    /\ root = NewTrie.root
    /\ total_words = NewTrie.total_words
    /\ total_nodes = NewTrie.total_nodes
    /\ ref = {}
    /\ inserts = 0
    /\ last = NoCall
    /\ fs = [p \in Paths |-> IF p = <<1>> THEN Missing ELSE Directory]
    /\ running = TRUE

NextCli ==
    \/ \E line \in Lines : Execute(line)
    \/ EndOfInput
    \/ Return

SpecCli == InitCli /\ [][NextCli]_vars

----------------------------------------------------------------------------
\* What the properties speak of.

\* the number of nodes reachable from node, node included
RECURSIVE CountNodes(_)
RECURSIVE CountNodesFrom(_, _)
CountNodes(node) == 1 + CountNodesFrom(node.children, 1)

CountNodesFrom(d, i) ==
    IF i > Len(d) THEN 0
    ELSE CountNodes(d[i].node) + CountNodesFrom(d, i + 1)

\* the number of reachable nodes whose terminal flag is set
RECURSIVE CountWords(_)
RECURSIVE CountWordsFrom(_, _)
CountWords(node) ==
    (IF node.is_word THEN 1 ELSE 0) + CountWordsFrom(node.children, 1)

CountWordsFrom(d, i) ==
    IF i > Len(d) THEN 0
    ELSE CountWords(d[i].node) + CountWordsFrom(d, i + 1)

\* some node below node (node itself excluded) is a non-terminal leaf
RECURSIVE HasDeadLeafBelow(_)
HasDeadLeafBelow(node) ==
    \E i \in 1..Len(node.children) :
        LET c == node.children[i].node
        IN  \/ (c.children = <<>> /\ ~c.is_word)
            \/ HasDeadLeafBelow(c)

\* the tree without its weights: keys and terminal flags only
RECURSIVE Shape(_)
Shape(node) ==
    [is_word |-> node.is_word,
     children |-> [i \in 1..Len(node.children) |->
                     [ch |-> node.children[i].ch,
                      node |-> Shape(node.children[i].node)]]]

ItemSet(T) == {items(T)[i] : i \in 1..Len(items(T))}

\* the weight stored for word w (w is a stored word)
WeightOf(T, w) == NodeAt(T.root, w).freq

\* the words of T that start with prefix, best first: descending weight,
\* ascending word among equal weights
Better(T, u, v) ==
    \/ WeightOf(T, u) > WeightOf(T, v)
    \/ (WeightOf(T, u) = WeightOf(T, v) /\ StrLess(u, v))

RECURSIVE RankedFrom(_, _)
RankedFrom(T, S) ==
    IF S = {} THEN <<>>
    ELSE LET m == CHOOSE u \in S : \A v \in S : u = v \/ Better(T, u, v)
         IN  <<m>> \o RankedFrom(T, S \ {m})

Matching(T, prefix) == {w \in Words : contains(T, w) /\ StartsWith(w, prefix)}

Ranked(T, prefix) == RankedFrom(T, Matching(T, prefix))

Min2(a, b) == IF a < b THEN a ELSE b

----------------------------------------------------------------------------
\* C1: after any sequence of insert and remove calls, node_count (the third
\* component of stats()) equals the number of nodes reachable from the
\* root, the root included, and is never below 1.
C1_NodeCountIsReachable ==
    /\ stats(self)[3] = CountNodes(root)
    /\ stats(self)[3] >= 1

\* C2: after any sequence of insert and remove calls, no node other than
\* the root is a non-terminal node without children.
C2_NoDeadBranch == ~HasDeadLeafBelow(root)

\* C3: after any sequence of insert and remove calls, word_count (the first
\* component of stats()) equals the number of reachable terminal nodes.
C3_WordCountIsTerminals == stats(self)[1] = CountWords(root)

\* C4: the Trie refines the reference map: contains(w) holds exactly for
\* the keys of the map, the empty word included, and items() as a set is
\* the set of (key, value) pairs of the map.
C4_RefinesMap ==
    /\ \A w \in Words : contains(self, w) <=> w \in RefKeys
    /\ ItemSet(self) = ref

\* C5: for k > 0, complete(prefix, k) is the first min(k, n) entries of the
\* list of all n stored words starting with prefix, sorted by descending
\* weight and ascending word among equal weights.
C5_CompleteIsTopK ==
    (last.op = "complete" /\ last.arg > 0) =>
        last.out = SubSeq(Ranked(self, last.word), 1,
                          Min2(last.arg, Len(Ranked(self, last.word))))

\* C6: remove(w) returns true exactly when w is currently stored (inserted
\* and not removed since); after it returns true, contains(w) is false and
\* an immediately following remove(w) returns false.
C6_RemoveReturnsStored ==
    [][last'.op = "remove" =>
        /\ last'.found <=> (last'.word \in RefKeys)
        /\ last'.found =>
              /\ ~contains(self', last'.word)
              /\ ~remove(self', last'.word).ret]_vars

\* C7: when remove(w) returns false, the index is unchanged: no node is
\* pruned, and stats(), items() and every contains result are as before.
C7_FailedRemoveChangesNothing ==
    [][(last'.op = "remove" /\ ~last'.found) =>
        /\ root' = root
        /\ stats(self') = stats(self)
        /\ items(self') = items(self)
        /\ \A w \in Words : contains(self', w) = contains(self, w)]_vars

\* C7 witness: remove has returned false for a word whose path exists
\* (a proper prefix of a stored word).
C7_Witness ==
    /\ last.op = "remove"
    /\ ~last.found
    /\ last.word # <<>>
    /\ trace(root, last.word).found
    /\ \E w \in Words : contains(self, w) /\ StartsWith(w, last.word)

\* C8: insert(w, f2) of a word w that is already stored leaves word_count,
\* node_count, the tree shape and every other word's weight unchanged, and
\* makes the weight of w equal to f2.
C8_ReinsertOnlyUpdatesWeight ==
    [][(last'.op = "insert" /\ contains(self, last'.word)) =>
        /\ total_words' = total_words
        /\ total_nodes' = total_nodes
        /\ Shape(root') = Shape(root)
        /\ \A w \in Words \ {last'.word} :
              contains(self, w) => WeightOf(self', w) = WeightOf(self, w)
        /\ WeightOf(self', last'.word) = last'.arg]_vars

\* C8 witness: the third insert was of a word that was stored already,
\* and another word is stored next to it.
C8_Witness ==
    /\ last.op = "insert"
    /\ last.found
    /\ total_words = 2
    /\ inserts = 3

\* C9: any two words of the list returned by complete(prefix, k) are
\* ordered: the word of higher weight first, and of two words of equal
\* weight the lexicographically smaller first.
C9_CompleteIsOrdered ==
    last.op = "complete" =>
        \A i \in 1..Len(last.out) : \A j \in (i + 1)..Len(last.out) :
            \/ WeightOf(self, last.out[i]) > WeightOf(self, last.out[j])
            \/ /\ WeightOf(self, last.out[i]) = WeightOf(self, last.out[j])
               /\ StrLess(last.out[i], last.out[j])

\* C9 witness: complete has returned two words of equal weight.
C9_Witness ==
    /\ last.op = "complete"
    /\ Len(last.out) = 2
    /\ WeightOf(self, last.out[1]) = WeightOf(self, last.out[2])

\* C10 as stated: for every prefix and k, complete(prefix, k) returns at
\* most k words, without repetition, each starting with prefix and each
\* reported as stored by contains.
C10_AtMostK ==
    last.op = "complete" =>
        /\ Len(last.out) <= last.arg
        /\ \A i, j \in 1..Len(last.out) : last.out[i] = last.out[j] => i = j
        /\ \A i \in 1..Len(last.out) :
              /\ StartsWith(last.out[i], last.word)
              /\ contains(self, last.out[i])

\* C10 as amended: for every prefix and k, complete(prefix, k) returns at
\* most max(k, 0) words (none when k is negative), without repetition, each
\* starting with prefix and each reported as stored by contains.
C10_AtMostKOrNone ==
    last.op = "complete" =>
        /\ Len(last.out) <= (IF last.arg > 0 THEN last.arg ELSE 0)
        /\ \A i, j \in 1..Len(last.out) : last.out[i] = last.out[j] => i = j
        /\ \A i \in 1..Len(last.out) :
              /\ StartsWith(last.out[i], last.word)
              /\ contains(self, last.out[i])

\* C10 witness: complete has returned k words for a non-empty prefix that
\* more than k stored words start with.
C10_Witness ==
    /\ last.op = "complete"
    /\ last.word # <<>>
    /\ last.arg >= 1
    /\ Len(last.out) = last.arg
    /\ Cardinality(Matching(self, last.word)) > last.arg

\* the addresses of the nodes reachable from node, node itself at <<>>
RECURSIVE Addrs(_)
Addrs(node) ==
    {<<>>} \cup UNION { {node.children[i].ch \o a : a \in Addrs(node.children[i].node)} :
                        i \in 1..Len(node.children) }

\* the words of T reported as stored by contains
Stored(T) == {w \in Addrs(T.root) : contains(T, w)}

\* every prefix, the empty one and w itself included, of a word of S
PrefixesOf(S) == UNION {{SubSeq(w, 1, n) : n \in 0..Len(w)} : w \in S}

OutSet == {last.out[i] : i \in 1..Len(last.out)}

\* C11: if the number of stored words that start with prefix p is at most
\* k (k > 0), complete(p, k) returns every one of them.
C11_CompleteReturnsAll ==
    (/\ last.op = "complete"
     /\ last.arg > 0
     /\ Cardinality(Matching(self, last.word)) <= last.arg) =>
        OutSet = Matching(self, last.word)

\* C11 witness: complete(p, 2) has returned the two stored words that
\* start with the non-empty prefix p.
C11_Witness ==
    /\ last.op = "complete"
    /\ last.word # <<>>
    /\ last.arg = 2
    /\ Cardinality(Matching(self, last.word)) = 2
    /\ Len(last.out) = 2

\* C12: complete(prefix, k) returns the empty sequence and leaves the index
\* unchanged whenever k is zero or negative, whether or not words match
\* prefix, and whenever no node exists for prefix.
C12_CompleteEmpty ==
    [][(/\ last'.op = "complete"
        /\ (last'.arg <= 0 \/ ~trace(root, last'.word).found)) =>
          /\ last'.out = <<>>
          /\ root' = root
          /\ stats(self') = stats(self)]_vars

\* C12 witness: complete has been called with k <= 0 and a prefix that
\* stored words start with.
C12_Witness ==
    /\ last.op = "complete"
    /\ last.arg <= 0
    /\ Matching(self, last.word) # {}
    /\ last.out = <<>>

\* C13: items() returns its (word, weight) pairs in ascending order of
\* word, whatever the order of the insert and remove calls.
C13_ItemsSorted ==
    last.op = "items" =>
        \A i \in 1..Len(last.out) : \A j \in (i + 1)..Len(last.out) :
            StrLess(last.out[i][1], last.out[j][1])

C19_ShapeFromStoredWords ==
    /\ Addrs(root) = {<<>>} \cup PrefixesOf(Stored(self))
    /\ stats(self)[3] = Cardinality({<<>>} \cup PrefixesOf(Stored(self)))
    /\ stats(self)[1] = Cardinality(Stored(self))

\* C14: the height component of stats() is the number of edges on the
\* longest path from the root to a leaf of the current tree, 0 for an index
\* holding only the root; after inserting a, ab, abc stats() is (3, 3, 4)
\* and after then removing abc it is (2, 2, 3).
C14_HeightAndScenario ==
    /\ stats(self)[2] = Max({Len(a) : a \in Addrs(root)})
    /\ (Addrs(root) = {<<>>} => stats(self)[2] = 0)
    /\ (/\ last.op = "stats"
        /\ ref = {<<w, 1>> : w \in ScenarioWords}) => last.out = <<3, 3, 4>>
    /\ (/\ last.op = "stats"
        /\ inserts = 3
        /\ ref = {<<w, 1>> : w \in ScenarioWords \ {<<1, 2, 3>>}}) =>
            last.out = <<2, 2, 3>>

\* the file at file_path holds what save_csv writes for items() of T
HoldsSaveOf(T, file_path) ==
    /\ fs[file_path].kind = "file"
    /\ fs[file_path].text = save_rows(items(T))

\* word is in the form load_csv brings words to
Normalised(word) == lower(strip(word)) = word

\* C15 as stated: for any index state reached by insert and remove calls
\* with arbitrary words, save_csv of items() followed by load_csv into a
\* fresh index gives the same set of (word, weight) pairs.
C15_RoundTrip ==
    [][(last'.op = "load" /\ HoldsSaveOf(self, last'.word)) =>
          ItemSet(self') = ItemSet(self)]_vars

\* C15 as amended: the round trip gives the same set of (word, weight)
\* pairs when every stored word is in the form load_csv normalises to
\* (lower case, no leading or trailing whitespace).
C15_RoundTripOfNormalised ==
    [][(/\ last'.op = "load"
        /\ HoldsSaveOf(self, last'.word)
        /\ \A w \in Stored(self) : Normalised(w)) =>
          ItemSet(self') = ItemSet(self)]_vars

\* C15 witness: a load has read back a saved index that holds the empty
\* word, a word with a comma and a word with a quote.
C15_Witness ==
    /\ last.op = "load"
    /\ HoldsSaveOf(self, last.word)
    /\ Stored(self) = {<<>>, <<1, Chr.comma>>, <<Chr.quote, 1>>}

\* the words of the line that last' holds, split as execute_command does
TypedParts == split(strip(last'.word))

\* the number of words a command line of each verb has, verb included
\* (app.py, the list of available commands)
PartsOf ==
    [v \in {Verb.quit, Verb.stats} |-> 1]
    @@ [v \in {Verb.load, Verb.save, Verb.remove, Verb.contains} |-> 2]
    @@ [v \in {Verb.insert, Verb.complete} |-> 3]

\* an unknown verb, or a known verb with the wrong number of arguments
Malformed(parts) ==
    /\ parts # <<>>
    /\ \/ lower(parts[1]) \notin DOMAIN PartsOf
       \/ /\ lower(parts[1]) \in DOMAIN PartsOf
          /\ Len(parts) # PartsOf[lower(parts[1])]

\* C16: in the command loop every malformed line (unknown verb, or known
\* verb with the wrong number of arguments) produces no output, leaves the
\* index unchanged and does not end the loop; only the explicit quit
\* command ends it.
C16_MalformedIsIgnored ==
    [][(last'.op = "exec" /\ Malformed(TypedParts)) =>
          /\ last'.out = <<>>
          /\ self' = self
          /\ running']_vars

\* what the caller of load_csv gets from it
Outcome(fsys, file_path) ==
    [ret |-> load_csv(fsys, file_path).ret,
     raised |-> load_csv(fsys, file_path).raised]

\* the last line executed was a load command for file_path
LoadOf(line, file_path) ==
    /\ Len(split(strip(line))) = 2
    /\ lower(split(strip(line))[1]) = Verb.load
    /\ split(strip(line))[2] = file_path

\* C17: when load has been asked to read a file that does not exist, what
\* the caller of the loader got differs from what it gets for an empty
\* file and from what it gets for another load failure.
C17_MissingFileIsDistinct ==
    \A p \in Paths :
        (last.op = "exec" /\ LoadOf(last.word, p) /\ fs[p] = Missing) =>
            /\ Outcome(fs, p) # Outcome([fs EXCEPT ![p] = File(<<>>)], p)
            /\ Outcome(fs, p) # Outcome([fs EXCEPT ![p] = Directory], p)

\* C20: a load command whose file is missing leaves the index unchanged:
\* the words and weights stored before the command are stored after it.
C20_FailedLoadKeepsIndex ==
    [][\A p \in Paths :
          (last'.op = "exec" /\ LoadOf(last'.word, p) /\ fs[p] = Missing) =>
              ItemSet(self') = ItemSet(self)]_vars

====
